---- MODULE Spec2Model ----
(***************************************************************************)
(* Model of api/views/auth.py of api.ashes.live: the two anonymous         *)
(* endpoints POST /token (log_in) and POST /reset (reset_password) acting  *)
(* on the User table.                                                      *)
(*                                                                         *)
(* Each HTTP request is one slot of `req`.  log_in only reads the table,   *)
(* so it is one step.  reset_password is three steps, cut where it touches *)
(* shared state: the query and the checks on its result (lines 70-76), the *)
(* commit (line 77), the call of send_message and the response (lines      *)
(* 78-88).  Spec runs the requests one after the other; ConcSpec lets the  *)
(* steps of different requests interleave, as the server's worker threads  *)
(* do.                                                                     *)
(***************************************************************************)
EXTENDS Integers, Sequences, FiniteSets, TLC

\* Number of HTTP requests of one behaviour.
NumReqs == 2

Slots == 1..NumReqs

\* Python's None as the result of Query.first()
None == "None"

\* A request that has not evaluated is_banned on anything.
Unread == "unread"

\* None in the Optional reset_uuid column; uuid4 values are 1, 2, ...
NoUuid == 0

\* The rows of the User table; the emails are stored lowercase.
UserIds == {"u1", "u2"}

StoredEmail == [u1 |-> <<"a", "l">>, u2 |-> <<"b", "o">>]

\* The plaintext each stored password hash was made from.
StoredSecret == [u1 |-> "pw1", u2 |-> "pw2"]

\* The emails and passwords the clients submit.
SubmittedEmails ==
    {<<"a", "l">>, <<"A", "l">>, <<"b", "o">>, <<"B", "O">>, <<"n", "o">>}

SubmittedPasswords == {"pw1", "pw2"}

VARIABLES
    users,      \* the User table: id -> [email, password, is_banned, reset_uuid]
    debug,      \* settings.debug
    uuids,      \* how many values uuid.uuid4() has returned so far
    req,        \* per request: position, inputs, local variables, response
    commits,    \* the committed writes, in commit order
    sent,       \* the calls of send_message, in call order
    logged,     \* the records written by logger.debug
    issued,     \* the calls of access_token_for_user
    superseded  \* the reset tokens a commit has overwritten

vars == <<users, debug, uuids, req, commits, sent, logged, issued, superseded>>

--------------------------------------------------------------------------
\* str.lower() on one character and on a string
LowerChar(c) ==
    CASE c = "A" -> "a"
      [] c = "B" -> "b"
      [] c = "L" -> "l"
      [] c = "N" -> "n"
      [] c = "O" -> "o"
      [] OTHER -> c

\* Variant: the email looked up as submitted.
Lower_missing(s) == s

Lower(s) == [i \in DOMAIN s |-> LowerChar(s[i])]

\* Variant: the query without its filter, the first row whatever the email.
QueryFirst_unfiltered(email) == CHOOSE u \in UserIds : u = "u1"

\* session.query(User).filter(User.email == email).first()
QueryFirst(email) ==
    IF \E u \in UserIds : users[u].email = email
    THEN CHOOSE u \in UserIds : users[u].email = email
    ELSE None

\* The stored hash of a plaintext (api.utils.auth)
HashOf(plaintext) == <<"hash", plaintext>>

\* verify_password(plaintext, stored_hash) of api.utils.auth
verify_password(plaintext, stored_hash) == stored_hash = HashOf(plaintext)

\* access_token_for_user(user) of api.services.user: the token's subject
access_token_for_user(user) == [sub |-> user]

\* uuid.uuid4(): a value no call has returned before
uuid4 == uuids + 1

--------------------------------------------------------------------------
\* Variant: an unknown email answered with its own kind of failure.
log_in_response_not_found(username, password) ==
    LET user == QueryFirst(Lower(username))
    IN  IF user = None
        THEN [kind |-> "AccountNotFound", user |-> user]
        ELSE IF ~verify_password(password, users[user].password)
        THEN [kind |-> "InvalidCredentials", user |-> user]
        ELSE IF users[user].is_banned
        THEN [kind |-> "AccountBanned", user |-> user]
        ELSE [kind |-> "Success", user |-> user,
              access_token |-> access_token_for_user(user),
              token_type |-> "bearer"]

\* Variant: the ban flag checked before the password.
log_in_response_ban_first(username, password) ==
    LET user == QueryFirst(Lower(username))
    IN  IF user = None
        THEN [kind |-> "InvalidCredentials", user |-> user]
        ELSE IF users[user].is_banned
        THEN [kind |-> "AccountBanned", user |-> user]
        ELSE IF ~verify_password(password, users[user].password)
        THEN [kind |-> "InvalidCredentials", user |-> user]
        ELSE [kind |-> "Success", user |-> user,
              access_token |-> access_token_for_user(user),
              token_type |-> "bearer"]

\* Variant: the password not verified.
log_in_response_unverified(username, password) ==
    LET user == QueryFirst(Lower(username))
    IN  IF user = None
        THEN [kind |-> "InvalidCredentials", user |-> user]
        ELSE IF users[user].is_banned
        THEN [kind |-> "AccountBanned", user |-> user]
        ELSE [kind |-> "Success", user |-> user,
              access_token |-> access_token_for_user(user),
              token_type |-> "bearer"]

\* log_in, lines 44-53: the response for the submitted form.
log_in_response(username, password) ==
    LET email == Lower(username)
        user == QueryFirst(email)
    IN  IF user = None \/ ~verify_password(password, users[user].password)
        THEN [kind |-> "InvalidCredentials", user |-> user]
        ELSE IF users[user].is_banned
        THEN [kind |-> "AccountBanned", user |-> user]
        ELSE [kind |-> "Success", user |-> user,
              access_token |-> access_token_for_user(user),
              token_type |-> "bearer"]

\* log_in, lines 46-50: the object whose is_banned line 50 evaluates; the
\* raise of line 47 leaves the function before it.
log_in_ban_read(username, password) ==
    LET user == QueryFirst(Lower(username))
    IN  IF user = None \/ ~verify_password(password, users[user].password)
        THEN Unread
        ELSE user

\* reset_password, line 72: is_banned is evaluated on the query's result
\* as it is, before line 74 tests it.
reset_ban_read(user) == user

\* Variant: the ban flag not checked.
reset_gate_no_ban(user) ==
    IF user = None THEN "AccountNotFound" ELSE "Admitted"

\* reset_password, lines 72-75: the checks on the query's result, in the
\* order of the code.  None has no attribute is_banned: line 72 raises
\* AttributeError when the query found nothing.
reset_gate(user) ==
    IF user = None THEN "AttributeError"
    ELSE IF users[user].is_banned THEN "AccountBanned"
    ELSE IF user = None THEN "AccountNotFound"
    ELSE "Admitted"

\* Variant: the write never committed.
commit_missing(user, reset_uuid) == users

\* Variant: a pending token is not overwritten.
commit_first_wins(user, reset_uuid) ==
    IF users[user].reset_uuid = NoUuid
    THEN [users EXCEPT ![user].reset_uuid = reset_uuid]
    ELSE users

\* Variant: the UPDATE without its WHERE clause.
commit_all_rows(user, reset_uuid) ==
    [u \in UserIds |-> [users[u] EXCEPT !.reset_uuid = reset_uuid]]

\* session.commit(), line 77: the UPDATE of the row's reset_uuid column.
commit(user, reset_uuid) ==
    [users EXCEPT ![user].reset_uuid = reset_uuid]

\* Variant: the token logged whatever settings.debug is.
logs_token_any_mode(accepted) == ~accepted

\* reset_password, lines 78-84: whether logger.debug writes the token.
logs_token(accepted) == ~accepted /\ debug

\* Variant: the test of send_message's answer negated.
reset_response_negated(accepted) ==
    IF accepted THEN "NotificationFailure" ELSE "Confirmation"

\* Variant: send_message's answer ignored.
reset_response_ignored(accepted) == "Confirmation"

\* reset_password, lines 78-88: the response for send_message's answer.
reset_response(accepted) ==
    IF accepted THEN "Confirmation" ELSE "NotificationFailure"

--------------------------------------------------------------------------
IdleReq ==
    [pc |-> "idle", op |-> "none", username |-> <<>>, password |-> "",
     email |-> <<>>, user |-> None, reset_uuid |-> NoUuid,
     ban_read |-> Unread, response |-> [kind |-> "none"]]

\* The tables the program can start on: any ban flags, any rows with a
\* reset pending from an earlier request (distinct uuid4 values).
InitTokens == [u1 |-> 1, u2 |-> 2]

Init ==
    /\ \E banned \in SUBSET UserIds, pending \in SUBSET UserIds :
         users = [u \in UserIds |->
                    [email |-> StoredEmail[u],
                     password |-> HashOf(StoredSecret[u]),
                     is_banned |-> u \in banned,
                     reset_uuid |-> IF u \in pending THEN InitTokens[u]
                                    ELSE NoUuid]]
    /\ debug \in BOOLEAN
    /\ uuids = Cardinality(UserIds)
    /\ req = [r \in Slots |-> IdleReq]
    /\ commits = <<>>
    /\ sent = <<>>
    /\ logged = {}
    /\ issued = {}
    /\ superseded = {}

\* Requests arrive in slot order.
Arrives(r) ==
    /\ req[r].pc = "idle"
    /\ r > 1 => req[r - 1].pc # "idle"

\* POST /token, lines 34-53
log_in(r, username, password) ==
    LET resp == log_in_response(username, password) IN
    /\ Arrives(r)
    /\ req' = [req EXCEPT ![r] =
                 [@ EXCEPT !.pc = "done", !.op = "log_in",
                           !.username = username, !.password = password,
                           !.email = Lower(username), !.user = resp.user,
                           !.ban_read = log_in_ban_read(username, password),
                           !.response = resp]]
    /\ issued' = IF resp.kind = "Success"
                 THEN issued \cup {[req |-> r, sub |-> resp.access_token.sub]}
                 ELSE issued
    /\ UNCHANGED <<users, debug, uuids, commits, sent, logged, superseded>>

\* POST /reset, lines 70-76: query, checks, and the new uuid on the
\* session's User object.
reset_password_query(r, address) ==
    LET email == Lower(address)
        user == QueryFirst(email)
        gate == reset_gate(user)
    IN  /\ Arrives(r)
        /\ IF gate = "Admitted"
           THEN /\ req' = [req EXCEPT ![r] =
                             [@ EXCEPT !.pc = "commit", !.op = "reset_password",
                                       !.username = address, !.email = email,
                                       !.user = user, !.reset_uuid = uuid4,
                                       !.ban_read = reset_ban_read(user)]]
                /\ uuids' = uuids + 1
           ELSE /\ req' = [req EXCEPT ![r] =
                             [@ EXCEPT !.pc = "done", !.op = "reset_password",
                                       !.username = address, !.email = email,
                                       !.user = user,
                                       !.ban_read = reset_ban_read(user),
                                       !.response = [kind |-> gate]]]
                /\ UNCHANGED uuids
        /\ UNCHANGED <<users, debug, commits, sent, logged, issued, superseded>>

\* POST /reset, line 77
reset_password_commit(r) ==
    /\ req[r].pc = "commit"
    /\ users' = commit(req[r].user, req[r].reset_uuid)
    /\ commits' = Append(commits, [req |-> r, user |-> req[r].user,
                                   reset_uuid |-> req[r].reset_uuid])
    /\ superseded' = superseded \cup
         {users[u].reset_uuid : u \in {v \in UserIds :
              /\ users[v].reset_uuid # NoUuid
              /\ users'[v].reset_uuid # users[v].reset_uuid}}
    /\ req' = [req EXCEPT ![r].pc = "send"]
    /\ UNCHANGED <<debug, uuids, sent, logged, issued>>

\* POST /reset, lines 78-88.  user.email and user.reset_uuid are read after
\* the commit: a session that expires its objects on commit loads them from
\* the table again, one that does not reads the values it holds.
reset_password_send(r, accepted) ==
    /\ req[r].pc = "send"
    /\ \E token \in {req[r].reset_uuid, users[req[r].user].reset_uuid} :
         /\ sent' = Append(sent, [req |-> r,
                                  recipient |-> users[req[r].user].email,
                                  reset_token |-> token,
                                  accepted |-> accepted])
         /\ logged' = IF logs_token(accepted)
                      THEN logged \cup {[email |-> req[r].email,
                                         reset_token |-> token]}
                      ELSE logged
    /\ req' = [req EXCEPT ![r].pc = "done",
                          ![r].response = [kind |-> reset_response(accepted)]]
    /\ UNCHANGED <<users, debug, uuids, commits, issued, superseded>>

\* No other request is between its first and its last step.
Alone(r) == \A q \in Slots \ {r} : req[q].pc \in {"idle", "done"}

\* The requests served one after the other.
Next ==
    \/ \E r \in Slots, e \in SubmittedEmails, p \in SubmittedPasswords :
         Alone(r) /\ log_in(r, e, p)
    \/ \E r \in Slots, e \in SubmittedEmails :
         Alone(r) /\ reset_password_query(r, e)
    \/ \E r \in Slots : Alone(r) /\ reset_password_commit(r)
    \/ \E r \in Slots, ok \in BOOLEAN : Alone(r) /\ reset_password_send(r, ok)

Spec == Init /\ [][Next]_vars

\* The requests served by concurrent workers.
ConcNext ==
    \/ \E r \in Slots, e \in SubmittedEmails, p \in SubmittedPasswords :
         log_in(r, e, p)
    \/ \E r \in Slots, e \in SubmittedEmails : reset_password_query(r, e)
    \/ \E r \in Slots : reset_password_commit(r)
    \/ \E r \in Slots, ok \in BOOLEAN : reset_password_send(r, ok)

ConcSpec == Init /\ [][ConcNext]_vars

--------------------------------------------------------------------------
\* What the claims speak about, read off the table and the request records.

\* The rows whose stored email is the email request r looked up.
Found(r) == {u \in UserIds : users[u].email = req[r].email}

Finished(r, op) == req[r].op = op /\ req[r].pc = "done"

Kind(r) == req[r].response.kind

\* The submitted password is the one row u's hash was made from.
SecretMatches(r, u) == req[r].password = StoredSecret[u]

\* Request r is the one that arrived last.
Latest(r) == r = NumReqs \/ req[r + 1].pc = "idle"

\* reset_password calls that passed the checks of lines 72-75.
AdmittedReset(r) == req[r].op = "reset_password" /\ req[r].reset_uuid # NoUuid

\* The reset tokens row u holds.
PendingTokens(u) == {t \in 1..uuids : users[u].reset_uuid = t}

\* C1: a login whose email matches no row ends with InvalidCredentials, the
\* kind a login with a wrong password for an existing row ends with.
C1_UnknownEmailInvalidCredentials ==
    \A r \in Slots : Finished(r, "log_in") =>
        /\ Found(r) = {} => Kind(r) = "InvalidCredentials"
        /\ \A u \in Found(r) : ~SecretMatches(r, u) =>
               Kind(r) = "InvalidCredentials"

C1_Witness ==
    \E r \in Slots :
        /\ Finished(r, "log_in")
        /\ Found(r) = {}
        /\ Kind(r) = "InvalidCredentials"

C3_UnknownEmailNotFound ==
    \A r \in Slots :
        Finished(r, "reset_password") /\ Found(r) = {} =>
            Kind(r) = "AccountNotFound"

\* C4: a reset request for a banned row ends with AccountBanned at its
\* first step: it writes nothing and send_message is not called.
C4_BannedReset ==
    \A r \in Slots : req[r].op = "reset_password" =>
        \A u \in Found(r) : users[u].is_banned =>
            /\ req[r].pc = "done"
            /\ Kind(r) = "AccountBanned"
            /\ \A i \in DOMAIN sent : sent[i].req # r
            /\ \A i \in DOMAIN commits : commits[i].req # r

C4_Witness ==
    \E r \in Slots, u \in UserIds :
        /\ Finished(r, "reset_password")
        /\ u \in Found(r)
        /\ users[u].is_banned
        /\ Kind(r) = "AccountBanned"

\* C5: a login for an existing row that is not banned, with the matching
\* password, ends with Success and a bearer token whose subject is the row
\* with the lowercased email.
C5_LoginSuccessToken ==
    \A r \in Slots : Finished(r, "log_in") =>
        \A u \in Found(r) : ~users[u].is_banned /\ SecretMatches(r, u) =>
            /\ Kind(r) = "Success"
            /\ req[r].response.token_type = "bearer"
            /\ req[r].response.access_token.sub = u
            /\ [req |-> r, sub |-> u] \in issued

C5_Witness ==
    \E r \in Slots, u \in UserIds :
        /\ Finished(r, "log_in")
        /\ u \in Found(r)
        /\ req[r].username # users[u].email
        /\ ~users[u].is_banned /\ SecretMatches(r, u)
        /\ Kind(r) = "Success"

\* C6: a login ends with Success, and a token is issued, only for an
\* existing row that is not banned and whose password matched; a wrong
\* password for such a row ends with InvalidCredentials and no token.
C6_NoTokenUnlessVerified ==
    /\ \A r \in Slots : Kind(r) = "Success" =>
           /\ req[r].op = "log_in"
           /\ \E u \in Found(r) : ~users[u].is_banned /\ SecretMatches(r, u)
    /\ \A t \in issued : Kind(t.req) = "Success"
    /\ \A r \in Slots : Finished(r, "log_in") =>
           \A u \in Found(r) : ~users[u].is_banned /\ ~SecretMatches(r, u) =>
               /\ Kind(r) = "InvalidCredentials"
               /\ \A t \in issued : t.req # r

C6_Witness ==
    \E r \in Slots, u \in UserIds :
        /\ Finished(r, "log_in")
        /\ u \in Found(r)
        /\ ~users[u].is_banned /\ ~SecretMatches(r, u)
        /\ Kind(r) = "InvalidCredentials"

\* C7: when two admitted reset requests for one row have run one after the
\* other, the row holds exactly one reset token, the second request's, and
\* the first request's token is not it.
C7_SecondOverwritesFirst ==
    \A r1, r2 \in Slots :
        /\ r1 < r2
        /\ AdmittedReset(r1) /\ AdmittedReset(r2)
        /\ req[r1].pc = "done" /\ req[r2].pc = "done"
        /\ req[r1].user = req[r2].user
        /\ Latest(r2)
        => LET u == req[r2].user IN
           /\ PendingTokens(u) = {req[r2].reset_uuid}
           /\ req[r1].reset_uuid \notin PendingTokens(u)
           /\ req[r1].reset_uuid \in superseded

C7_Witness ==
    \E r1, r2 \in Slots :
        /\ r1 < r2
        /\ AdmittedReset(r1) /\ AdmittedReset(r2)
        /\ req[r1].pc = "done" /\ req[r2].pc = "done"
        /\ req[r1].user = req[r2].user
        /\ Latest(r2)
        /\ users[req[r2].user].reset_uuid = req[r2].reset_uuid

\* C8: an admitted reset request whose send_message call answered False
\* ends with NotificationFailure and its token stays in the table: the
\* row read right after the request holds the token the request generated.
C8_NoRollbackOnDispatchFailure ==
    \A r \in Slots :
        /\ AdmittedReset(r)
        /\ req[r].pc = "done"
        /\ \E i \in DOMAIN sent : sent[i].req = r /\ ~sent[i].accepted
        => /\ Kind(r) = "NotificationFailure"
           /\ Latest(r) =>
                /\ users[req[r].user].reset_uuid # NoUuid
                /\ users[req[r].user].reset_uuid = req[r].reset_uuid

C8_Witness ==
    \E r \in Slots :
        /\ AdmittedReset(r)
        /\ req[r].pc = "done"
        /\ \E i \in DOMAIN sent : sent[i].req = r /\ ~sent[i].accepted
        /\ Kind(r) = "NotificationFailure"
        /\ Latest(r)
        /\ users[req[r].user].reset_uuid = req[r].reset_uuid

\* The commits on row u, as indexes of `commits`.
CommitsOn(u) == {i \in DOMAIN commits : commits[i].user = u}

LastCommitOn(u) == CHOOSE i \in CommitsOn(u) : \A j \in CommitsOn(u) : j <= i

\* C9: under every interleaving of reset requests a row holds at most one
\* reset token, a row that was committed to holds the token of the last
\* commit on it, and the token of every earlier commit is superseded.
C9_LastWriteWins ==
    \A u \in UserIds :
        /\ Cardinality(PendingTokens(u)) <= 1
        /\ CommitsOn(u) # {} =>
             /\ PendingTokens(u) = {commits[LastCommitOn(u)].reset_uuid}
             /\ \A i \in CommitsOn(u) : i # LastCommitOn(u) =>
                    /\ commits[i].reset_uuid \notin PendingTokens(u)
                    /\ commits[i].reset_uuid \in superseded

\* Two requests for one row, both past the query before either commit, the
\* later arrival committing first, and both finished.
C9_Witness ==
    /\ \A r \in Slots : req[r].pc = "done"
    /\ \E i, j \in DOMAIN commits :
         /\ i < j
         /\ commits[i].req > commits[j].req
         /\ commits[i].user = commits[j].user
         /\ users[commits[j].user].reset_uuid = commits[j].reset_uuid

\* C10: the reset tokens are fresh: no two requests generated the same one,
\* none is a token a row held at the start, a superseded token is the
\* pending token of no row, and no two rows hold the same pending token.
C10_FreshTokens ==
    /\ \A r, q \in Slots :
           AdmittedReset(r) /\ AdmittedReset(q) /\ r # q =>
               req[r].reset_uuid # req[q].reset_uuid
    /\ \A r \in Slots, u \in UserIds :
           AdmittedReset(r) => req[r].reset_uuid # InitTokens[u]
    /\ \A u \in UserIds : users[u].reset_uuid \notin superseded
    /\ \A u, v \in UserIds :
           u # v /\ users[u].reset_uuid # NoUuid =>
               users[u].reset_uuid # users[v].reset_uuid

\* A token was superseded and both rows hold a pending token.
C10_Witness ==
    /\ superseded # {}
    /\ \A u \in UserIds : users[u].reset_uuid # NoUuid
    /\ \E r, q \in Slots :
           /\ r # q
           /\ req[r].pc = "done" /\ req[q].pc = "done"
           /\ AdmittedReset(r) /\ AdmittedReset(q)

\* C11 as stated: in both operations is_banned is evaluated only on a row
\* the query returned, never on the absent result None.
C11_BanReadOnlyOnFoundRow ==
    \A r \in Slots :
        /\ req[r].ban_read # None
        /\ req[r].ban_read # Unread =>
             req[r].ban_read \in UserIds /\ req[r].ban_read \in Found(r)

\* The outcome kinds the interface lists for each operation.
LoginKinds == {"Success", "InvalidCredentials", "AccountBanned"}

ResetKinds ==
    {"Confirmation", "AccountBanned", "AccountNotFound", "NotificationFailure"}

\* C12 as stated: a finished request has one outcome and it is one of the
\* kinds listed for its operation.
C12_ListedOutcomeKinds ==
    \A r \in Slots :
        /\ Finished(r, "log_in") => Kind(r) \in LoginKinds
        /\ Finished(r, "reset_password") => Kind(r) \in ResetKinds

\* The upper-case form of each letter of the addresses.
UpperOf == [a |-> "A", b |-> "B", l |-> "L", n |-> "N", o |-> "O"]

SameLetter(c, d) ==
    \/ c = d
    \/ c \in DOMAIN UpperOf /\ UpperOf[c] = d
    \/ d \in DOMAIN UpperOf /\ UpperOf[d] = c

\* Two addresses that differ at most in the case of their letters.
SameButCase(s, t) ==
    /\ Len(s) = Len(t)
    /\ \A i \in 1..Len(s) : SameLetter(s[i], t[i])

HasNoUpperCase(s) ==
    \A i \in 1..Len(s) : \A c \in DOMAIN UpperOf : s[i] # UpperOf[c]

\* The answers send_message gave request r.
Answers(r) == {sent[i].accepted : i \in {j \in DOMAIN sent : sent[j].req = r}}

\* C13: the key of every lookup is the submitted email in lower case, and
\* two finished requests of one operation whose emails differ only in case
\* (same password, same dispatcher answer) found the same row and ended
\* with the same kind.
C13_CaseInsensitiveLookup ==
    /\ \A r \in Slots : req[r].pc # "idle" =>
           /\ HasNoUpperCase(req[r].email)
           /\ SameButCase(req[r].email, req[r].username)
           /\ \A u \in UserIds :
                  SameButCase(users[u].email, req[r].username) =>
                      req[r].user = u
    /\ \A r, q \in Slots :
           /\ req[r].pc = "done" /\ req[q].pc = "done"
           /\ req[r].op = req[q].op
           /\ SameButCase(req[r].username, req[q].username)
           /\ req[r].password = req[q].password
           /\ Answers(r) = Answers(q)
           => /\ req[r].user = req[q].user
              /\ Kind(r) = Kind(q)

\* A login and its repetition with the email in another case both succeed.
C13_Witness ==
    \E r, q \in Slots :
        /\ Finished(r, "log_in") /\ Finished(q, "log_in")
        /\ req[r].username # req[q].username
        /\ SameButCase(req[r].username, req[q].username)
        /\ req[r].password = req[q].password
        /\ Kind(r) = "Success" /\ Kind(q) = "Success"

\* The indexes of the send_message calls and of the commits of request r.
SentBy(r) == {i \in DOMAIN sent : sent[i].req = r}

CommitsBy(r) == {i \in DOMAIN commits : commits[i].req = r}

\* C14: a reset token is in the log only with settings.debug set and for a
\* send_message call that carried this token to this address and answered
\* False; an accepted call and a request that failed the checks log none.
C14_TokenLoggedOnlyInDebug ==
    /\ ~debug => logged = {}
    /\ \A l \in logged :
           \E i \in DOMAIN sent :
               /\ ~sent[i].accepted
               /\ sent[i].reset_token = l.reset_token
               /\ sent[i].recipient = l.email
               /\ AdmittedReset(sent[i].req)
    /\ \A r \in Slots :
           req[r].pc = "done" /\ (\A i \in SentBy(r) : sent[i].accepted) =>
               \A l \in logged : l.reset_token # req[r].reset_uuid

\* With debug set, one request's rejected dispatch is logged and another's
\* accepted dispatch is not.
C14_Witness ==
    /\ debug
    /\ \E r, q \in Slots :
           /\ Kind(r) = "NotificationFailure"
           /\ Kind(q) = "Confirmation"
           /\ \E l \in logged : l.reset_token = req[r].reset_uuid

\* C15: an admitted reset request generates its token, commits once, then
\* calls send_message once: no call without the commit before it, no second
\* commit or call, and Confirmation exactly when send_message answered True.
C15_GenerateCommitDispatch ==
    \A r \in Slots :
        /\ Cardinality(CommitsBy(r)) <= 1
        /\ Cardinality(SentBy(r)) <= 1
        /\ CommitsBy(r) # {} =>
             /\ AdmittedReset(r)
             /\ \A i \in CommitsBy(r) :
                    commits[i].reset_uuid = req[r].reset_uuid
        /\ SentBy(r) # {} => CommitsBy(r) # {}
        /\ req[r].pc = "commit" => CommitsBy(r) = {} /\ SentBy(r) = {}
        /\ req[r].pc = "send" => CommitsBy(r) # {} /\ SentBy(r) = {}
        /\ AdmittedReset(r) /\ req[r].pc = "done" =>
             /\ Cardinality(CommitsBy(r)) = 1
             /\ Cardinality(SentBy(r)) = 1
             /\ \A i \in SentBy(r) :
                    (Kind(r) = "Confirmation") <=> sent[i].accepted

C15_Witness ==
    \E r, q \in Slots :
        /\ AdmittedReset(r) /\ req[r].pc = "done" /\ Kind(r) = "Confirmation"
        /\ AdmittedReset(q) /\ req[q].pc = "done"
        /\ Kind(q) = "NotificationFailure"

\* A step that takes request r from arrival to its response at once: a
\* login, or a reset request that fails the checks.
AnsweredAtOnce(r) == req[r].pc = "idle" /\ req'[r].pc = "done"

\* C16: no step changes an email, a password hash or a ban flag; a login
\* and a reset request that fails the checks change no row and call no
\* dispatcher; a row's reset token changes only in the commit of an admitted
\* reset request, and only on the row that request looked up.
C16_OnlyResetTokenWritten ==
    [][ /\ \A u \in UserIds :
               /\ users'[u].email = users[u].email
               /\ users'[u].password = users[u].password
               /\ users'[u].is_banned = users[u].is_banned
        /\ \A r \in Slots : AnsweredAtOnce(r) =>
               users' = users /\ sent' = sent /\ commits' = commits
        /\ sent' # sent =>
               \E r \in Slots : AdmittedReset(r) /\ req[r].pc = "send"
        /\ users' # users =>
               \E r \in Slots :
                   /\ AdmittedReset(r)
                   /\ req[r].pc = "commit" /\ req'[r].pc = "send"
                   /\ \A u \in UserIds \ {req[r].user} : users'[u] = users[u]
                   /\ req[r].user \in Found(r)
      ]_vars

\* A login, and an admitted reset request whose commit left the other row
\* with the token it had.
C16_Witness ==
    \E r, q \in Slots, u \in UserIds :
        /\ Finished(r, "log_in")
        /\ AdmittedReset(q) /\ req[q].pc = "done"
        /\ u # req[q].user
        /\ users[u].reset_uuid = InitTokens[u]
        /\ users[req[q].user].reset_uuid = req[q].reset_uuid

\* The submitted password is not the one behind the hash of the row the
\* login looked up, or there is no such row.
SecretFails(r) == \A u \in Found(r) : ~SecretMatches(r, u)

\* C17: the outcome of a login whose password does not verify is the same
\* whatever the account's state: any two such logins, on a missing, a banned
\* or an unbanned row, end alike with InvalidCredentials; AccountBanned is
\* the outcome only of a login whose password verified.
C17_FailedSecretHidesAccountState ==
    /\ \A r, q \in Slots :
           /\ Finished(r, "log_in") /\ Finished(q, "log_in")
           /\ SecretFails(r) /\ SecretFails(q)
           => Kind(r) = Kind(q) /\ Kind(r) = "InvalidCredentials"
    /\ \A r \in Slots :
           Finished(r, "log_in") /\ Kind(r) = "AccountBanned" =>
               \E u \in Found(r) : SecretMatches(r, u) /\ users[u].is_banned

\* Two logins with a wrong password, one for a banned row and one for an
\* email with no row.
C17_Witness ==
    \E r, q \in Slots :
        /\ Finished(r, "log_in") /\ Finished(q, "log_in")
        /\ SecretFails(r) /\ SecretFails(q)
        /\ Found(q) = {}
        /\ \E u \in Found(r) : users[u].is_banned
        /\ Kind(r) = "InvalidCredentials" /\ Kind(q) = "InvalidCredentials"

\* C18: every send_message call goes to the stored email of the row its
\* request looked up, which is the submitted email but for case, and carries
\* a token committed to that row.
C18_DispatchToLookedUpIdentity ==
    \A i \in DOMAIN sent :
        LET r == sent[i].req
            u == req[r].user
        IN  /\ u \in UserIds
            /\ sent[i].recipient = StoredEmail[u]
            /\ SameButCase(sent[i].recipient, req[r].username)
            /\ \E j \in CommitsOn(u) :
                   commits[j].reset_uuid = sent[i].reset_token
            /\ \A v \in UserIds \ {u} :
                   /\ sent[i].recipient # users[v].email
                   /\ \A j \in CommitsOn(v) :
                          commits[j].reset_uuid # sent[i].reset_token

\* A call that carried the token another request committed to the same row.
C18_Witness ==
    \E i \in DOMAIN sent :
        /\ sent[i].reset_token # req[sent[i].req].reset_uuid
        /\ sent[i].accepted

====
